---------------------------- MODULE Spec2Model ----------------------------
(***************************************************************************)
(* A model of the thermal grid of src/test1.py: the four parallel arrays   *)
(* H (heat), G (generation), M (capacity) and C_arr (conductivity), the    *)
(* occupancy grid of Box objects that mirrors placed Content objects into  *)
(* them, update_heat_array (the diffusion step) and the INCOME handler of  *)
(* the main loop (the lifecycle tick).                                     *)
(*                                                                         *)
(* The arrays hold Python floats.  The model computes in exact rational    *)
(* arithmetic: a number is a record [n |-> numerator, d |-> denominator]   *)
(* in lowest terms with d > 0, so equal numbers are equal records.         *)
(***************************************************************************)
EXTENDS Integers, Sequences, FiniteSets, TLC

VARIABLES
    H,          \* heat array                              (test1.py:438)
    G,          \* generation array                        (test1.py:439)
    M,          \* capacity array                          (test1.py:440)
    C_arr,      \* conductivity array                      (test1.py:441)
    dH,         \* delta buffer of the last update_heat_array call (test1.py:300)
    occupied,   \* Box.occupied of every cell              (test1.py:93)
    content,    \* Box.content of every cell, or None      (test1.py:94)
    money,      \* the player's money                      (test1.py:420)
    all_items,  \* the catalog entries (templates)         (test1.py:428)
    now,        \* current_time of the main loop, in ms     (test1.py:448)
    dt,         \* dt of the main loop / of update_heat_array (test1.py:449)
    ticks,      \* number of update_heat_array calls so far (bounds the model)
    ev          \* the event handled last and what it did

vars == <<H, G, M, C_arr, dH, occupied, content, money, all_items, now, dt,
          ticks, ev>>

----------------------------------------------------------------------------
(***************************************************************************)
(* Exact rational arithmetic.                                              *)
(***************************************************************************)
Abs(i) == IF i < 0 THEN -i ELSE i

RECURSIVE GCD(_, _)
GCD(a, b) == IF b = 0 THEN a ELSE GCD(b, a % b)

\* The rational n/d (d > 0) in lowest terms.
Norm(n, d) ==
    LET g == GCD(Abs(n), d)
    IN  [n |-> n \div g, d |-> d \div g]

Q(n, d) == IF d < 0 THEN Norm(-n, -d) ELSE Norm(n, d)
R(i) == [n |-> i, d |-> 1]
Zero == R(0)

\* Sums, products and comparisons cancel common factors first, so that
\* no intermediate value is larger than the result needs.
RAdd(a, b) ==
    LET g == GCD(a.d, b.d)
    IN  Norm(a.n * (b.d \div g) + b.n * (a.d \div g), (a.d \div g) * b.d)
RNeg(a)    == [n |-> -a.n, d |-> a.d]
RSub(a, b) == RAdd(a, RNeg(b))
RMul(a, b) ==
    LET g1 == GCD(Abs(a.n), b.d)
        g2 == GCD(Abs(b.n), a.d)
    IN  IF a.n = 0 \/ b.n = 0 THEN [n |-> 0, d |-> 1]
        ELSE [n |-> (a.n \div g1) * (b.n \div g2),
              d |-> (a.d \div g2) * (b.d \div g1)]
\* a / b, for b # 0.
RDiv(a, b) ==
    IF b.n > 0 THEN RMul(a, [n |-> b.d, d |-> b.n])
    ELSE RMul(a, [n |-> -b.d, d |-> -b.n])
RLt(a, b)  ==
    LET g == GCD(a.d, b.d)
    IN  a.n * (b.d \div g) < b.n * (a.d \div g)
RLe(a, b)  ==
    LET g == GCD(a.d, b.d)
    IN  a.n * (b.d \div g) <= b.n * (a.d \div g)
RPos(a)    == a.n > 0
RNegative(a) == a.n < 0
RMax(a, b) == IF RLe(a, b) THEN b ELSE a
RMin(a, b) == IF RLe(a, b) THEN a ELSE b
RAbs(a)    == [n |-> Abs(a.n), d |-> a.d]

\* The sum of f over the finite set S.
RECURSIVE RSum(_, _)
RSum(f, S) ==
    IF S = {} THEN Zero
    ELSE LET x == CHOOSE y \in S : TRUE
         IN  RAdd(f[x], RSum(f, S \ {x}))

----------------------------------------------------------------------------
(***************************************************************************)
(* The grid.  The program's grid is 10 x 10 (test1.py:434); the model's is *)
(* Rows x Cols.                                                            *)
(***************************************************************************)
Rows == 2
Cols == 3

Cells == (0 .. Rows - 1) \X (0 .. Cols - 1)

\* Row-major position of a cell: the order of range(rows) x range(cols) and
\* of np.argwhere.
Idx(x) == x[1] * Cols + x[2]

zeros == [x \in Cells |-> Zero]

\* neighbors_coords: Right, Down, Left, Up.
neighbors_coords == << <<0, 1>>, <<1, 0>>, <<0, -1>>, <<-1, 0>> >>

\* The in-bounds neighbours of every cell when the four diagonal
\* directions are taken too.
InBounds_with_diagonals ==
    [x \in Cells |->
        LET around == neighbors_coords \o << <<1, 1>>, <<1, -1>>, <<-1, 1>>, <<-1, -1>> >>
            at(i) == <<x[1] + around[i][1], x[2] + around[i][2]>>
        IN  SelectSeq([i \in 1 .. 8 |-> at(i)], LAMBDA y : y \in Cells)]

\* The in-bounds 4-neighbours of every cell, in the order of
\* neighbors_coords: "if 0 <= nr < rows and 0 <= nc < cols".
InBounds ==
    [x \in Cells |->
        LET at(i) == <<x[1] + neighbors_coords[i][1], x[2] + neighbors_coords[i][2]>>
        IN  SelectSeq([i \in 1 .. 4 |-> at(i)], LAMBDA y : y \in Cells)]

Neighbours4(x) == InBounds[x]

Range(s) == {s[i] : i \in 1 .. Len(s)}

\* The array f with every entry computed (TLC would otherwise recompute an
\* entry of [x \in Cells |-> e] each time it is read).
Array(f) == f @@ <<>>

\* The sum of the sequence of numbers s.
RECURSIVE SeqSum(_)
SeqSum(s) == IF s = <<>> THEN Zero ELSE RAdd(Head(s), SeqSum(Tail(s)))

----------------------------------------------------------------------------
(***************************************************************************)
(* update_heat_array(H, G, C_arr, M, dt), test1.py:269-411.  The           *)
(* parameters h, g, c, m are arrays (functions on Cells) and d is dt.      *)
(***************************************************************************)
diffusion_rate_factor_setting == 1

\* "H += G * dt"
Generation(h, g, d) == Array([x \in Cells |-> RAdd(h[x], RMul(g[x], d))])

\* "T = np.divide(H, M, out=zeros, where=M > 0)"
Temperature(h, m) ==
    Array([x \in Cells |-> IF RPos(m[x]) THEN RDiv(h[x], m[x]) ELSE Zero])

\* "connectivity = (C_arr > 0).astype(int)"
connectivity(c) == {x \in Cells : RPos(c[x])}

\* A structure with its middle row set only, [[0, 0, 0], [1, 1, 1],
\* [0, 0, 0]]: a cell and its left and right neighbours.
Adjacent8_same_row(x, y) ==
    /\ x # y
    /\ x[1] = y[1]
    /\ Abs(x[2] - y[2]) <= 1

\* structure = np.ones((3, 3)): a cell and its eight neighbours.
Adjacent8(x, y) ==
    /\ x # y
    /\ Abs(x[1] - y[1]) <= 1
    /\ Abs(x[2] - y[2]) <= 1

\* The cells of K reachable from S through 8-adjacent cells of K.
RECURSIVE Grow(_, _)
Grow(S, K) ==
    LET new == {y \in K \ S : \E x \in S : Adjacent8(x, y)}
    IN  IF new = {} THEN S ELSE Grow(S \cup new, K)

Component(x, c) == Grow({x}, connectivity(c))

\* The first cell of a component in row-major order.
First(K) == CHOOSE x \in K : \A y \in K : Idx(x) <= Idx(y)

\* scipy.ndimage.label(connectivity, structure): 0 for a cell outside every
\* component, and the components numbered 1, 2, ... in the row-major order
\* of their first cells.
label(c) ==
    LET K == connectivity(c)
        first == Array([x \in K |-> Idx(First(Grow({x}, K)))])
    IN  Array([x \in Cells |->
            IF x \notin K THEN 0
            ELSE Cardinality({first[y] : y \in {z \in K : first[z] <= first[x]}})])

\* "if M[r, c] <= 0 or C_arr[r, c] <= 0: continue", negated.
Conducts(x, m, c) == ~(RLe(m[x], Zero) \/ RLe(c[x], Zero))

\* The neighbour test reduced to "M[nr, nc] > 0".
Linked_by_capacity(x, n, m, c, labeled) == RPos(m[n])

\* The two tests on the neighbour n of x: it has capacity and conductivity,
\* and both cells have the same non-zero component id.
Linked(x, n, m, c, labeled) ==
    /\ RPos(m[n]) /\ RPos(c[n])
    /\ labeled[x] # 0 /\ labeled[x] = labeled[n]

\* heat_flow from x to its neighbour n, computed from the snapshot T.
heat_flow(x, n, T, c, d) ==
    LET effective_conductivity == RDiv(RAdd(c[x], c[n]), R(2))
        temp_diff == RSub(T[x], T[n])
    IN  RMul(RMul(RMul(effective_conductivity, temp_diff), d),
             R(diffusion_rate_factor_setting))

\* What the visit of cell x adds to dH[y] over its neighbour n:
\* "dH[r, c] -= heat_flow; dH[nr, nc] += heat_flow".
Visit(x, n, y, T, m, c, labeled, d) ==
    IF Conducts(x, m, c) /\ Linked(x, n, m, c, labeled)
    THEN IF y = x THEN RNeg(heat_flow(x, n, T, c, d))
         ELSE IF y = n THEN heat_flow(x, n, T, c, d)
         ELSE Zero
    ELSE Zero

\* The delta buffer dH after the double loop over the cells and their
\* neighbours.  dH[y] receives from the visit of y itself (over each of its
\* neighbours) and from the visit of each neighbour of y (over y).
Conduction(h, m, c, d) ==
    LET T == Temperature(h, m)
        labeled == label(c)
        own(y) == [i \in 1 .. Len(Neighbours4(y)) |->
                      Visit(y, Neighbours4(y)[i], y, T, m, c, labeled, d)]
        got(y) == [i \in 1 .. Len(Neighbours4(y)) |->
                      Visit(Neighbours4(y)[i], y, y, T, m, c, labeled, d)]
    IN  Array([y \in Cells |-> RAdd(SeqSum(own(y)), SeqSum(got(y)))])

\* The neighbour of x in the direction neighbors_coords[i], in the grid or
\* not.
Towards(x, i) ==
    <<x[1] + neighbors_coords[i][1], x[2] + neighbors_coords[i][2]>>

\* One pass of the inner loop that reads the temperatures from the heat
\* as it stands with the transfers accumulated so far, not from the
\* snapshot.
Accumulate_running(acc, x, n, T, m, c, labeled, d) ==
    LET running == [y \in Cells |->
                       IF RPos(m[y]) THEN RAdd(T[y], RDiv(acc[y], m[y])) ELSE Zero]
    IN  IF n \in Cells /\ Conducts(x, m, c) /\ Linked(x, n, m, c, labeled)
        THEN LET flow == heat_flow(x, n, running, c, d)
             IN  [acc EXCEPT ![x] = RSub(@, flow), ![n] = RAdd(@, flow)]
        ELSE acc

\* One pass of the inner loop, for cell x and its neighbour n, on the
\* delta buffer acc: "dH[r, c] -= heat_flow; dH[nr, nc] += heat_flow".
Accumulate(acc, x, n, T, m, c, labeled, d) ==
    IF n \in Cells /\ Conducts(x, m, c) /\ Linked(x, n, m, c, labeled)
    THEN LET flow == heat_flow(x, n, T, c, d)
         IN  [acc EXCEPT ![x] = RSub(@, flow), ![n] = RAdd(@, flow)]
    ELSE acc

\* The inner loop for cell x, taking the directions in the order dirs.
RECURSIVE InnerLoop(_, _, _, _, _, _, _, _)
InnerLoop(acc, x, dirs, T, m, c, labeled, d) ==
    IF dirs = <<>> THEN acc
    ELSE InnerLoop(Accumulate(acc, x, Towards(x, Head(dirs)), T, m, c, labeled, d),
                   x, Tail(dirs), T, m, c, labeled, d)

\* The double loop taking the cells in the order cells and, for each, the
\* directions in the order dirs, on the delta buffer acc; the code takes
\* them in the orders RowMajor(Cells) and <<1, 2, 3, 4>>, from zeros.
RECURSIVE DoubleLoop(_, _, _, _, _, _, _, _)
DoubleLoop(acc, cells, dirs, T, m, c, labeled, d) ==
    IF cells = <<>> THEN acc
    ELSE DoubleLoop(InnerLoop(acc, Head(cells), dirs, T, m, c, labeled, d),
                    Tail(cells), dirs, T, m, c, labeled, d)

\* "H += dH"
Apply(h, delta) == Array([x \in Cells |-> RAdd(h[x], delta[x])])

\* A cooling mask that asks for capacity: "(G < 0) & (M > 0)".
cooling_mask_with_capacity(g, m) == {x \in Cells : RNegative(g[x]) /\ RPos(m[x])}

\* "cooling_mask = (G < 0) & (M == 0)"
cooling_mask(g, m) == {x \in Cells : RNegative(g[x]) /\ m[x] = Zero}

\* A set of cells as the sequence np.argwhere gives: row-major order.
RECURSIVE RowMajor(_)
RowMajor(S) ==
    IF S = {} THEN <<>>
    ELSE LET x == First(S) IN <<x>> \o RowMajor(S \ {x})

\* neighbors_to_cool of the cooling cell s.
neighbors_to_cool(s, m) == SelectSeq(Neighbours4(s), LAMBDA y : RPos(m[y]))

\* The heat of neighbour y after the cooling cell has cooled it:
\* "H[ni, nj] = max(0, H[ni, nj] - cooling_power * proportion)".
Cooled(hy, cooling_power, total) ==
    LET proportion == RDiv(hy, total)
        cool_amount == RMul(cooling_power, proportion)
    IN  RMax(Zero, RSub(hy, cool_amount))

\* A cooling cell that shares its power in proportion to the heat of the
\* whole grid instead of the heat of its coolable neighbours.
CoolOne_grid_total(h, s, g, m, d) ==
    LET cooling_power == RMul(RNeg(g[s]), d)
        ns == neighbors_to_cool(s, m)
        total == RSum(h, Cells)
    IN  IF Len(ns) > 0 /\ RPos(total)
        THEN Array([y \in Cells |->
                 IF y \in Range(ns) THEN Cooled(h[y], cooling_power, total)
                 ELSE h[y]])
        ELSE h

\* One cooling cell s acting on the array h.
CoolOne(h, s, g, m, d) ==
    LET cooling_power == RMul(RNeg(g[s]), d)
        ns == neighbors_to_cool(s, m)
        total == SeqSum([i \in 1 .. Len(ns) |-> h[ns[i]]])
    IN  IF Len(ns) > 0 /\ RPos(total)
        THEN Array([y \in Cells |->
                 IF y \in Range(ns) THEN Cooled(h[y], cooling_power, total)
                 ELSE h[y]])
        ELSE h

\* The cooling cells acting one after the other, in the order of the
\* sequence ss.
RECURSIVE CoolAll(_, _, _, _, _)
CoolAll(h, ss, g, m, d) ==
    IF ss = <<>> THEN h
    ELSE CoolAll(CoolOne(h, Head(ss), g, m, d), Tail(ss), g, m, d)

Cooling(h, g, m, d) == CoolAll(h, RowMajor(cooling_mask(g, m)), g, m, d)

\* Clip without its lower bound.
Clip_no_floor(h, m) == Array([x \in Cells |-> RMin(h[x], m[x])])

\* "np.clip(H, 0, M, out=H)": minimum(maximum(H, 0), M).
Clip(h, m) == Array([x \in Cells |-> RMin(RMax(h[x], Zero), m[x])])

\* A call that computes the temperatures in place, into the capacity array:
\* "np.divide(H, M, out=M, where=M > 0)".
heat_step_divides_in_place(h, g, c, m, d) ==
    LET h1 == Generation(h, g, d)
        delta == Conduction(h1, m, c, d)
        h2 == Apply(h1, delta)
        h3 == Cooling(h2, g, m, d)
    IN  [H |-> Clip(h3, m), G |-> g, C_arr |-> c, M |-> Temperature(h1, m),
         dH |-> delta]

\* One call: the four argument arrays as the call leaves them (it writes
\* to H only: lines 290, 370, 402 and 409) and the delta buffer it filled
\* on the way (dH).
heat_step(h, g, c, m, d) ==
    LET h1 == Generation(h, g, d)
        delta == Conduction(h1, m, c, d)
        h2 == Apply(h1, delta)
        h3 == Cooling(h2, g, m, d)
    IN  [H |-> Clip(h3, m), G |-> g, C_arr |-> c, M |-> m, dH |-> delta]

update_heat_array(h, g, c, m, d) == heat_step(h, g, c, m, d).H

----------------------------------------------------------------------------
(***************************************************************************)
(* Content, Box and Grid, test1.py:16-192.  The image and the category of  *)
(* a Content belong to the shop and the renderer and are left out.         *)
(***************************************************************************)
game_speed_actions_per_second == 50
return_percentage_on_sell == 1

\* Box.content of an empty cell.
None == [name |-> "None"]

\* Content.__init__ called at clock value t.
Content(name, cost, timeout, income, heat_generation, max_heat, conductivity, t) ==
    [name |-> name, cost |-> cost, timeout |-> timeout, creation |-> t,
     income |-> income, heat |-> Zero, heat_generation |-> heat_generation,
     max_heat |-> max_heat, conductivity |-> conductivity,
     permanent |-> (timeout = 0)]

\* clone copying the creation time of the template.
clone_template_time(self, t) ==
    Content(self.name, self.cost, self.timeout,
            RDiv(self.income, R(game_speed_actions_per_second)),
            self.heat_generation, self.max_heat, self.conductivity, self.creation)

\* Content.clone called at clock value t.
clone(self, t) ==
    Content(self.name, self.cost, self.timeout,
            RDiv(self.income, R(game_speed_actions_per_second)),
            self.heat_generation, self.max_heat, self.conductivity, t)

\* The state Box.place and Box.remove work on: the four arrays and the
\* boxes.
Board == [H |-> H, G |-> G, M |-> M, C_arr |-> C_arr,
          occupied |-> occupied, content |-> content]

\* Box.place without the test of self.occupied.
Box_place_overwrite(b, x, template, t) ==
    LET new == clone(template, t)
    IN  [ret |-> TRUE,
         board |-> [H |-> [b.H EXCEPT ![x] = Zero],
                    G |-> [b.G EXCEPT ![x] = new.heat_generation],
                    M |-> [b.M EXCEPT ![x] = new.max_heat],
                    C_arr |-> [b.C_arr EXCEPT ![x] = new.conductivity],
                    occupied |-> [b.occupied EXCEPT ![x] = TRUE],
                    content |-> [b.content EXCEPT ![x] = new]]]

\* Box.place(content) on the box of cell x at clock value t: the return
\* value and the board afterwards.
Box_place(b, x, template, t) ==
    IF ~b.occupied[x]
    THEN LET new == clone(template, t)
         IN  [ret |-> TRUE,
              board |-> [H |-> [b.H EXCEPT ![x] = Zero],
                         G |-> [b.G EXCEPT ![x] = new.heat_generation],
                         M |-> [b.M EXCEPT ![x] = new.max_heat],
                         C_arr |-> [b.C_arr EXCEPT ![x] = new.conductivity],
                         occupied |-> [b.occupied EXCEPT ![x] = TRUE],
                         content |-> [b.content EXCEPT ![x] = new]]]
    ELSE [ret |-> FALSE, board |-> b]

\* Box.remove that empties the box and clears the heat but leaves the
\* generation, capacity and conductivity of the cell.
Box_remove_stale(b, x) ==
    [H |-> [b.H EXCEPT ![x] = Zero], G |-> b.G, M |-> b.M, C_arr |-> b.C_arr,
     occupied |-> [b.occupied EXCEPT ![x] = FALSE],
     content |-> [b.content EXCEPT ![x] = None]]

\* Box.remove that clears generation, capacity and conductivity but leaves
\* the heat of the cell.
Box_remove_keep_heat(b, x) ==
    [H |-> b.H,
     G |-> [b.G EXCEPT ![x] = Zero],
     M |-> [b.M EXCEPT ![x] = Zero],
     C_arr |-> [b.C_arr EXCEPT ![x] = Zero],
     occupied |-> [b.occupied EXCEPT ![x] = FALSE],
     content |-> [b.content EXCEPT ![x] = None]]

\* Box.remove() on the box of cell x.
Box_remove(b, x) ==
    LET cleared == IF b.content[x] # None
                   THEN [H |-> [b.H EXCEPT ![x] = Zero],
                         G |-> [b.G EXCEPT ![x] = Zero],
                         M |-> [b.M EXCEPT ![x] = Zero],
                         C_arr |-> [b.C_arr EXCEPT ![x] = Zero]]
                   ELSE [H |-> b.H, G |-> b.G, M |-> b.M, C_arr |-> b.C_arr]
    IN  [H |-> cleared.H, G |-> cleared.G, M |-> cleared.M,
         C_arr |-> cleared.C_arr,
         occupied |-> [b.occupied EXCEPT ![x] = FALSE],
         content |-> [b.content EXCEPT ![x] = None]]

\* Box.cash_return().
cash_return(b, x) == b.content[x].cost

\* Grid.place(pos, content) with pos inside the box of cell x: the boxes
\* do not overlap, so x is the only box that is hovered.
Grid_place(b, x, template, t) == Box_place(b, x, template, t)

----------------------------------------------------------------------------
(***************************************************************************)
(* The main loop, test1.py:413-498.                                        *)
(***************************************************************************)
\* Bounds of the model.
MaxTicks == 2       \* update_heat_array calls in one run
MaxTime == 1000     \* the clock stops here (milliseconds)
MaxObjects == 2     \* objects on the grid at one time
MaxDenominator == 50    \* a heat array with a larger denominator is not
                        \* stepped again by SpecStep (TLC's integers are 32 bits)

\* Milliseconds between two iterations of the main loop.
DeltaMs == {0, 1000}

\* The boxes the player clicks on.
ClickCells == {<<0, 0>>, <<0, 1>>}

\* The catalog load_shop_contents reads from shop_objects.csv, here three
\* entries: a fuel rod that expires and overheats, a pipe, and a cooler
\* (a heat sink: no capacity, negative generation).  The entries are
\* constructed at clock value 0.
Catalog ==
    [rod    |-> Content("rod", 10, 1, R(1), R(1), R(32), Q(1, 2), 0),
     pipe   |-> Content("pipe", 25, 0, R(0), R(0), R(8), Q(1, 2), 0),
     cooler |-> Content("cooler", 25, 0, R(0), Q(-1, 2), R(0), R(0), 0)]

Items == DOMAIN Catalog

\* The event handled last: its type, what it returned (grid.place: True or
\* False; a right click: whether it hit an object) and the cells the INCOME
\* handler emptied by expiration and by overheat.
Event(type, ret, expired, overheated) ==
    [type |-> type, ret |-> ret, expired |-> expired, overheated |-> overheated]

Init ==
    /\ H = zeros /\ G = zeros /\ M = zeros /\ C_arr = zeros
    /\ dH = zeros
    /\ occupied = [x \in Cells |-> FALSE]
    /\ content = [x \in Cells |-> None]
    /\ money = R(500000)
    /\ all_items = Catalog
    /\ now = 0
    /\ dt = Zero
    /\ ticks = 0
    /\ ev = Event("init", FALSE, {}, {})

\* "current_time = get_ticks(); dt = (current_time - last_time) /
\* game_speed_actions_per_second; last_time = current_time", d milliseconds
\* after the previous iteration.
MainLoop(d) ==
    /\ now + d <= MaxTime
    /\ now' = now + d
    /\ dt' = Q((now + d) - now, game_speed_actions_per_second)
    /\ ev' = Event("loop", FALSE, {}, {})
    /\ UNCHANGED <<H, G, M, C_arr, dH, occupied, content, money, all_items, ticks>>

\* The expiration test without "if not b.content.permanent".
Expired_ignoring_permanent(cnt, t) ==
    RLe(R(cnt.timeout), Q(t - cnt.creation, 1000))

\* The expiration test with "elapsed > timeout".
Expired_strictly_after(cnt, t) ==
    /\ ~cnt.permanent
    /\ RLt(R(cnt.timeout), Q(t - cnt.creation, 1000))

\* The expiration test with "if b.content.permanent": the objects with a
\* timeout are never tested.
Expired_only_permanent(cnt, t) ==
    /\ cnt.permanent
    /\ RLe(R(cnt.timeout), Q(t - cnt.creation, 1000))

\* elapsed >= timeout for the content cnt at clock value t.
Expired(cnt, t) ==
    /\ ~cnt.permanent
    /\ RLe(R(cnt.timeout), Q(t - cnt.creation, 1000))

\* The overheat test without "and b.content.heat_generation > 0".
Overheated_any(cnt) == RLe(cnt.max_heat, cnt.heat)

\* "b.content.heat >= b.content.max_heat and b.content.heat_generation > 0"
Overheated(cnt) ==
    /\ RLe(cnt.max_heat, cnt.heat)
    /\ RPos(cnt.heat_generation)

\* The loop body testing the heat mirrored by the previous tick: the
\* overheat test comes before "b.content.heat = H[r, c]".
VisitBox_stale_heat(st, x, t) ==
    IF st.board.content[x] = None THEN st
    ELSE LET old == st.board.content[x]
             cnt == [old EXCEPT !.heat = st.board.H[x]]
             b1 == [st.board EXCEPT !.content[x] = cnt]
             paid == RAdd(st.money, cnt.income)
         IN  IF Expired(cnt, t)
             THEN [board |-> Box_remove(b1, x), money |-> paid,
                   expired |-> st.expired \cup {x}, overheated |-> st.overheated]
             ELSE IF Overheated(old)
             THEN [board |-> Box_remove(b1, x), money |-> paid,
                   expired |-> st.expired, overheated |-> st.overheated \cup {x}]
             ELSE [board |-> b1, money |-> paid,
                   expired |-> st.expired, overheated |-> st.overheated]

\* The loop body paying the income after the two removal tests, so that
\* a removed object pays nothing.
VisitBox_pay_survivors(st, x, t) ==
    IF st.board.content[x] = None THEN st
    ELSE LET cnt == [st.board.content[x] EXCEPT !.heat = st.board.H[x]]
             b1 == [st.board EXCEPT !.content[x] = cnt]
             paid == RAdd(st.money, cnt.income)
         IN  IF Expired(cnt, t)
             THEN [board |-> Box_remove(b1, x), money |-> st.money,
                   expired |-> st.expired \cup {x}, overheated |-> st.overheated]
             ELSE IF Overheated(cnt)
             THEN [board |-> Box_remove(b1, x), money |-> st.money,
                   expired |-> st.expired, overheated |-> st.overheated \cup {x}]
             ELSE [board |-> b1, money |-> paid,
                   expired |-> st.expired, overheated |-> st.overheated]

\* The body of the INCOME handler's loop for the box of cell x, at clock
\* value t.  st holds the board, the money and the cells removed so far.
VisitBox(st, x, t) ==
    IF st.board.content[x] = None THEN st
    ELSE LET cnt == [st.board.content[x] EXCEPT !.heat = st.board.H[x]]
             b1 == [st.board EXCEPT !.content[x] = cnt]
             paid == RAdd(st.money, cnt.income)
         IN  IF Expired(cnt, t)
             THEN [board |-> Box_remove(b1, x), money |-> paid,
                   expired |-> st.expired \cup {x}, overheated |-> st.overheated]
             ELSE IF Overheated(cnt)
             THEN [board |-> Box_remove(b1, x), money |-> paid,
                   expired |-> st.expired, overheated |-> st.overheated \cup {x}]
             ELSE [board |-> b1, money |-> paid,
                   expired |-> st.expired, overheated |-> st.overheated]

\* "for r in range(rows): for c in range(cols): ..." over the cells xs.
RECURSIVE VisitAll(_, _, _)
VisitAll(st, xs, t) ==
    IF xs = <<>> THEN st
    ELSE VisitAll(VisitBox(st, Head(xs), t), Tail(xs), t)

\* The INCOME handler: the diffusion step, then the lifecycle loop.
Income ==
    /\ ticks < MaxTicks
    /\ \E call \in {heat_step(H, G, C_arr, M, dt)} :
       \E st \in {VisitAll([board |-> [Board EXCEPT !.H = call.H, !.G = call.G,
                                              !.M = call.M, !.C_arr = call.C_arr],
                             money |-> money, expired |-> {}, overheated |-> {}],
                            RowMajor(Cells), now)} :
           /\ dH' = call.dH
           /\ H' = st.board.H /\ G' = st.board.G /\ M' = st.board.M
           /\ C_arr' = st.board.C_arr
           /\ occupied' = st.board.occupied
           /\ content' = st.board.content
           /\ money' = st.money
           /\ ev' = Event("INCOME", FALSE, st.expired, st.overheated)
    /\ ticks' = ticks + 1
    /\ UNCHANGED <<all_items, now, dt>>

\* MOUSEBUTTONDOWN, button 1, over the box of cell x with the catalog entry
\* item active in the panel.
LeftClick(x, item) ==
    /\ occupied[x] \/ Cardinality({y \in Cells : occupied[y]}) < MaxObjects
    /\ RLe(R(all_items[item].cost), money)
    /\ \E r \in {Grid_place(Board, x, all_items[item], now)} :
           /\ H' = r.board.H /\ G' = r.board.G /\ M' = r.board.M
           /\ C_arr' = r.board.C_arr
           /\ occupied' = r.board.occupied
           /\ content' = r.board.content
           /\ money' = IF r.ret THEN RSub(money, R(all_items[item].cost)) ELSE money
           /\ ev' = Event("place", r.ret, {}, {})
    /\ UNCHANGED <<dH, all_items, now, dt, ticks>>

\* MOUSEBUTTONDOWN, button 3, over the box of cell x.
RightClick(x) ==
    /\ \E hit \in {content[x] # None} :
       \E b \in {IF hit THEN Box_remove(Board, x) ELSE Board} :
           /\ H' = b.H /\ G' = b.G /\ M' = b.M /\ C_arr' = b.C_arr
           /\ occupied' = b.occupied
           /\ content' = b.content
           /\ money' = IF hit
                       THEN RAdd(money, R(cash_return(Board, x) * return_percentage_on_sell))
                       ELSE money
           /\ ev' = Event("remove", hit, {}, {})
    /\ UNCHANGED <<dH, all_items, now, dt, ticks>>

Next ==
    \/ \E d \in DeltaMs : MainLoop(d)
    \/ Income
    \/ \E x \in ClickCells, item \in Items : LeftClick(x, item)
    \/ \E x \in ClickCells : RightClick(x)

Spec == Init /\ [][Next]_vars

\* The program with its scheduling.  The INCOME timer posts an event every
\* 1000 // game_speed_actions_per_second milliseconds of the clock
\* (line 424), so that only a bounded number of ticks is handled at one
\* clock value: here ticks counts the ticks since the clock last advanced
\* and at most MaxTicks are handled before it advances again.
MainLoopTimed(d) ==
    /\ now + d <= MaxTime
    /\ now' = now + d
    /\ dt' = Q((now + d) - now, game_speed_actions_per_second)
    /\ ticks' = IF d > 0 THEN 0 ELSE ticks
    /\ ev' = Event("loop", FALSE, {}, {})
    /\ UNCHANGED <<H, G, M, C_arr, dH, occupied, content, money, all_items>>

\* The clock advances.
Advance == \E d \in DeltaMs \ {0} : MainLoopTimed(d)

\* A left click that places an object with a timeout only while the clock
\* of the model can still reach the end of the timeout.
LeftClickTimed(x, item) ==
    /\ now + 1000 * all_items[item].timeout <= MaxTime
    /\ LeftClick(x, item)

NextTimed ==
    \/ \E d \in DeltaMs : MainLoopTimed(d)
    \/ Income
    \/ \E x \in ClickCells, item \in Items : LeftClickTimed(x, item)
    \/ \E x \in ClickCells : RightClick(x)

\* The steps that handle an INCOME event: Income is the only action that
\* adds 1 to ticks, and it is enabled exactly when ticks < MaxTicks.
Tick == ticks < MaxTicks /\ ticks' = ticks + 1

\* The main loop runs on, "while running:", so the clock is read again
\* and again and the INCOME events posted by the timer are handled.
SpecTimed ==
    /\ Init /\ [][NextTimed]_vars
    /\ WF_vars(Advance)
    /\ WF_ticks(Tick)

----------------------------------------------------------------------------
(***************************************************************************)
(* update_heat_array as a function of its arguments: SpecStep starts from  *)
(* a board drawn from FieldInputs and applies the function with a dt       *)
(* drawn from DtInputs.  The lifecycle is not run.                         *)
(***************************************************************************)
\* The cells of the drawn boards that may be loaded: the first row and the
\* cell below its first cell.
CornerCell == <<1, 0>>
FieldCells == {<<0, 0>>, <<0, 1>>, <<0, 2>>, CornerCell}

\* What a loaded cell holds: generation g, capacity m, conductivity c and
\* heat h, with 0 <= h <= m.  Two conductors of different capacity, an
\* insulated mass, and a heat sink.
Loads ==
    {[g |-> R(0), m |-> R(10), c |-> R(1), h |-> R(i)] : i \in {0, 5, 10}}
    \cup {[g |-> R(0), m |-> R(4), c |-> R(2), h |-> R(i)] : i \in {0, 3}}
    \cup {[g |-> R(0), m |-> R(4), c |-> R(0), h |-> R(0)]}
    \cup {[g |-> R(-2), m |-> R(0), c |-> R(0), h |-> R(0)]}

Empty == [g |-> Zero, m |-> Zero, c |-> Zero, h |-> Zero]

\* The corner cell is empty or holds a full conductor.
CornerLoads == {Empty, [g |-> R(0), m |-> R(10), c |-> R(1), h |-> R(10)]}

FieldInputs ==
    {f \in [FieldCells -> Loads \cup {Empty}] : f[CornerCell] \in CornerLoads}

DtInputs == {R(-1), R(0), R(1), R(2)}

Load(f, x) == IF x \in FieldCells THEN f[x] ELSE Empty

\* The object whose placement gives a cell the load l.
Loaded(l) == Content("load", 0, 0, Zero, l.g, l.m, l.c, 0)

InitStep ==
    /\ \E f \in FieldInputs :
          /\ H = [x \in Cells |-> Load(f, x).h]
          /\ G = [x \in Cells |-> Load(f, x).g]
          /\ M = [x \in Cells |-> Load(f, x).m]
          /\ C_arr = [x \in Cells |-> Load(f, x).c]
          /\ occupied = [x \in Cells |-> Load(f, x) # Empty]
          /\ content = [x \in Cells |->
                           IF Load(f, x) # Empty THEN Loaded(Load(f, x)) ELSE None]
    /\ dH = zeros
    /\ money = R(500000)
    /\ all_items = Catalog
    /\ now = 0
    /\ dt = Zero
    /\ ticks = 0
    /\ ev = Event("init", FALSE, {}, {})

Representable(h) == \A x \in Cells : h[x].d <= MaxDenominator

\* One call update_heat_array(H, G, C_arr, M, d).
Step(d) ==
    /\ ticks < MaxTicks
    /\ Representable(H)
    /\ \E call \in {heat_step(H, G, C_arr, M, d)} :
          /\ H' = call.H /\ G' = call.G /\ M' = call.M /\ C_arr' = call.C_arr
          /\ dH' = call.dH
    /\ dt' = d
    /\ ticks' = ticks + 1
    /\ ev' = Event("step", FALSE, {}, {})
    /\ UNCHANGED <<occupied, content, money, all_items, now>>

NextStep == \E d \in DtInputs : Step(d)

SpecStep == InitStep /\ [][NextStep]_vars

----------------------------------------------------------------------------
(***************************************************************************)
(* Properties.                                                             *)
(***************************************************************************)

\* C1: in every reachable state of the game every cell has
\* 0 <= heat <= capacity; a cell of capacity 0 (an empty cell or a heat
\* sink) therefore has heat 0, although the generation phase of a step
\* makes the heat of a sink negative.
HeatWithinCapacity ==
    \A x \in Cells : RLe(Zero, H[x]) /\ RLe(H[x], M[x])

\* A tick with dt > 0 has just run over a heat sink (whose heat the
\* generation phase makes negative) and a cell that holds heat.
HeatWithinCapacityWitness ==
    /\ ev.type = "INCOME" /\ RPos(dt)
    /\ \E x \in Cells :
          /\ RNegative(G[x]) /\ M[x] = Zero /\ H[x] = Zero
          /\ RNegative(Generation(H, G, dt)[x])
    /\ \E y \in Cells : RPos(H[y])

\* C2: occupancy and the field agree in every reachable state: an occupied
\* cell carries the heat_generation, max_heat and conductivity of its
\* object, an empty cell has heat, generation, capacity and conductivity 0.
OccupancyMatchesField ==
    \A x \in Cells :
        IF occupied[x]
        THEN /\ content[x] # None
             /\ G[x] = content[x].heat_generation
             /\ M[x] = content[x].max_heat
             /\ C_arr[x] = content[x].conductivity
        ELSE /\ content[x] = None
             /\ H[x] = Zero /\ G[x] = Zero /\ M[x] = Zero /\ C_arr[x] = Zero

\* A tick has just removed an expired object while another object, which
\* holds heat, stays.
OccupancyMatchesFieldWitness ==
    /\ ev.type = "INCOME" /\ ev.expired # {}
    /\ \E y \in Cells : occupied[y] /\ RPos(H[y])

\* The six parts of the board at cell y are left as they are.
SameAt(y) ==
    /\ H'[y] = H[y] /\ G'[y] = G[y] /\ M'[y] = M[y] /\ C_arr'[y] = C_arr[y]
    /\ occupied'[y] = occupied[y] /\ content'[y] = content[y]

\* C3: a left click that places on an occupied cell returns False and
\* changes neither the stored object (creation time and heat included) nor
\* the occupied flag nor any of the four arrays, in any cell.
PlaceOnOccupiedChangesNothing ==
    [][\A x \in ClickCells, item \in Items :
          (occupied[x] /\ LeftClick(x, item)) =>
              /\ ev'.type = "place" /\ ev'.ret = FALSE
              /\ \A y \in Cells : SameAt(y)]_vars

\* A place has just been refused on a cell whose object was placed earlier
\* and holds heat.
PlaceOnOccupiedWitness ==
    /\ ev.type = "place" /\ ev.ret = FALSE
    /\ \E x \in ClickCells :
          occupied[x] /\ RPos(H[x]) /\ content[x].creation < now

\* Cell x is cleared in the next state.
ClearedNext(x) ==
    /\ H'[x] = Zero /\ G'[x] = Zero /\ M'[x] = Zero /\ C_arr'[x] = Zero
    /\ ~occupied'[x] /\ content'[x] = None

\* C4: a remove of an occupied cell leaves the four arrays 0 at that cell
\* and the cell unoccupied with no content, and touches no other cell:
\* after a right click every other cell is as before, and after a tick the
\* cells it removed (by expiration or overheat) are cleared while every
\* other cell keeps its generation, capacity, conductivity and occupancy
\* and has the heat the diffusion step gave it.
RemoveClearsCell ==
    [][/\ \A x \in ClickCells :
             (content[x] # None /\ RightClick(x)) =>
                 /\ ClearedNext(x)
                 /\ \A y \in Cells \ {x} : SameAt(y)
       /\ (ev'.type = "INCOME" /\ ticks' = ticks + 1) =>
             \E stepped \in {update_heat_array(H, G, C_arr, M, dt)} :
                 \A x \in Cells :
                     IF x \in ev'.expired \cup ev'.overheated
                     THEN occupied[x] /\ ClearedNext(x)
                     ELSE /\ G'[x] = G[x] /\ M'[x] = M[x]
                          /\ C_arr'[x] = C_arr[x]
                          /\ occupied'[x] = occupied[x]
                          /\ H'[x] = stepped[x]]_vars

\* A tick has just removed an overheated object while another object,
\* which holds heat, stays.
RemoveClearsCellWitness ==
    /\ ev.type = "INCOME" /\ ev.overheated # {}
    /\ \E x \in ev.overheated : ~occupied[x] /\ H[x] = Zero
    /\ \E y \in Cells : occupied[y] /\ RPos(H[y])

\* C5: a left click that places the catalog entry item on an empty cell x
\* returns True, stores an object created at the time of the click with
\* the thermal parameters of the entry, sets generation, capacity and
\* conductivity of x to them and the heat of x to 0, and leaves the catalog
\* and every other cell as they are.
PlaceOnEmptyInstalls ==
    [][\A x \in ClickCells, item \in Items :
          (~occupied[x] /\ LeftClick(x, item)) =>
              /\ ev'.type = "place" /\ ev'.ret = TRUE
              /\ occupied'[x]
              /\ content'[x].creation = now
              /\ content'[x].heat = Zero
              /\ content'[x].heat_generation = all_items[item].heat_generation
              /\ content'[x].max_heat = all_items[item].max_heat
              /\ content'[x].conductivity = all_items[item].conductivity
              /\ G'[x] = all_items[item].heat_generation
              /\ M'[x] = all_items[item].max_heat
              /\ C_arr'[x] = all_items[item].conductivity
              /\ H'[x] = Zero
              /\ all_items' = all_items
              /\ \A y \in Cells \ {x} : SameAt(y)]_vars

\* An object has just been placed, later than its catalog entry was
\* created, while another object on the board holds heat.
PlaceOnEmptyWitness ==
    /\ ev.type = "place" /\ ev.ret = TRUE
    /\ \E x \in ClickCells :
          /\ occupied[x] /\ content[x].creation = now
          /\ all_items[content[x].name].creation < now
          /\ \E y \in Cells \ {x} : occupied[y] /\ RPos(H[y])

\* y is one of the up to four neighbours of x.
Adjacent4(x, y) == y \in Range(Neighbours4(x))

\* heat / capacity of a cell of capacity > 0.
TemperatureAt(h, x) == RDiv(h[x], M[x])

\* a and b are 4-adjacent, both with capacity > 0, conductivity > 0 and
\* generation 0, and no other cell is occupied.
OnlyPair(a, b) ==
    /\ Adjacent4(a, b)
    /\ RPos(M[a]) /\ RPos(M[b])
    /\ RPos(C_arr[a]) /\ RPos(C_arr[b])
    /\ G[a] = Zero /\ G[b] = Zero
    /\ \A z \in Cells \ {a, b} : ~occupied[z]

\* C6 (refuted by the code): with generation 0 in every cell and dt >= 0,
\* one update_heat_array call leaves the sum of heat over all cells as it
\* was.
HeatConserved ==
    [][((\A x \in Cells : G[x] = Zero) /\ RLe(Zero, dt')) =>
          RSum(H', Cells) = RSum(H, Cells)]_vars

\* C7: conduction moves heat only inside a component: after every call
\* the delta buffer is 0 at each cell of component id 0, and its entries
\* add up to 0 over each 8-connected component of the cells with
\* conductivity > 0, so no component gains or loses heat by conduction.
ConductionWithinComponents ==
    LET labeled == label(C_arr)
    IN  \A x \in Cells :
            IF labeled[x] = 0 THEN dH[x] = Zero
            ELSE RSum(dH, {y \in Cells : labeled[y] = labeled[x]}) = Zero

\* A call with dt > 0 has just moved heat inside the component of x, while
\* a conductor y of another component with another temperature, and an
\* insulated mass next to x, took part in nothing.
ConductionWithinComponentsWitness ==
    LET labeled == label(C_arr)
    IN  /\ ev.type = "step" /\ RPos(dt)
        /\ \E x, y, z \in Cells :
              /\ labeled[x] # 0 /\ labeled[y] # 0 /\ labeled[x] # labeled[y]
              /\ dH[x] # Zero /\ dH[y] = Zero
              /\ TemperatureAt(H, x) # TemperatureAt(H, y)
              /\ Adjacent4(x, z) /\ RPos(M[z]) /\ C_arr[z] = Zero
              /\ TemperatureAt(H, x) # TemperatureAt(H, z)

\* |heat_a / capacity_a - heat_b / capacity_b|
TemperatureGap(h, a, b) == RAbs(RSub(TemperatureAt(h, a), TemperatureAt(h, b)))

\* C8 (refuted by the code): for two 4-adjacent cells of equal capacity
\* that are the only occupied cells, both with conductivity > 0 and
\* generation 0, the absolute temperature difference does not increase in
\* an update_heat_array call with dt >= 0.
TemperatureGapNeverGrows ==
    [][\A a, b \in Cells :
          (OnlyPair(a, b) /\ M[a] = M[b] /\ RLe(Zero, dt')) =>
              RLe(TemperatureGap(H', a, b), TemperatureGap(H, a, b))]_vars

\* The flow of C9: ((cond_a + cond_b) / 2) * (T_a - T_b) * d.
PairFlow(a, b, d) ==
    RMul(RMul(RDiv(RAdd(C_arr[a], C_arr[b]), R(2)),
              RSub(TemperatureAt(H, a), TemperatureAt(H, b))), d)

\* C9 (refuted by the code): for two 4-adjacent cells a and b that are the
\* only occupied cells, both with capacity > 0, conductivity > 0 and
\* generation 0, one update_heat_array call moves, before clamping, exactly
\* ((cond_a + cond_b) / 2) * (T_a - T_b) * dt from a to b.
FlowCountedOnce ==
    [][\A a, b \in Cells :
          OnlyPair(a, b) =>
              /\ dH'[a] = RNeg(PairFlow(a, b, dt'))
              /\ dH'[b] = PairFlow(a, b, dt')]_vars

\* s is a heat sink whose only 4-adjacent cell with capacity > 0 is n, and
\* n has generation 0 and heat > 0.
SoleNeighbour(s, n) ==
    /\ RNegative(G[s]) /\ M[s] = Zero
    /\ neighbors_to_cool(s, M) = <<n>>
    /\ G[n] = Zero /\ RPos(H[n])

\* No 4-adjacent cell of n has both capacity > 0 and conductivity > 0, and
\* no heat sink other than s is 4-adjacent to n.
Undisturbed(s, n) ==
    \A z \in Range(Neighbours4(n)) :
        /\ ~(RPos(M[z]) /\ RPos(C_arr[z]))
        /\ z # s => ~(RNegative(G[z]) /\ M[z] = Zero)

\* C10 as stated (refuted): for a heat sink s whose only 4-adjacent cell
\* with capacity > 0 is n, with generation 0 and heat h > 0, one
\* update_heat_array call with dt >= 0 leaves n with
\* max(0, h - (-g) * dt) and the sink with heat 0.
SinkCoolsSoleNeighbour ==
    [][\A s, n \in Cells :
          (SoleNeighbour(s, n) /\ RLe(Zero, dt')) =>
              /\ H'[n] = RMax(Zero, RSub(H[n], RMul(RNeg(G[s]), dt')))
              /\ H'[s] = Zero]_vars

\* C10, amended: if moreover no 4-adjacent cell of n has both capacity > 0
\* and conductivity > 0 and no other heat sink is 4-adjacent to n, one
\* update_heat_array call leaves n with max(0, h - (-g) * dt), clamped to
\* the capacity of n (which matters for dt < 0 only), and the sink with
\* heat 0.
SinkCoolsUndisturbedNeighbour ==
    [][\A s, n \in Cells :
          (SoleNeighbour(s, n) /\ Undisturbed(s, n)) =>
              /\ H'[n] = RMin(M[n],
                              RMax(Zero, RSub(H[n], RMul(RNeg(G[s]), dt'))))
              /\ H'[s] = Zero]_vars

\* The literal case has just run: a sink of generation -2 has cooled its
\* sole neighbour, of capacity 10 and undisturbed, with dt = 1 to heat 3.
SinkCoolsUndisturbedNeighbourWitness ==
    /\ ev.type = "step" /\ ticks = 1 /\ dt = R(1)
    /\ \E s, n \in Cells :
          /\ G[s] = R(-2) /\ M[s] = Zero /\ H[s] = Zero
          /\ neighbors_to_cool(s, M) = <<n>>
          /\ Undisturbed(s, n)
          /\ G[n] = Zero /\ M[n] = R(10) /\ H[n] = R(3)

\* The step is a run of the INCOME handler.
IncomeStep == ev'.type = "INCOME" /\ ticks' = ticks + 1

\* The object of cell x has a timeout > 0 that has run out at the clock
\* value now (milliseconds against seconds).
TimedOut(x) ==
    /\ content[x].timeout > 0
    /\ now - content[x].creation >= 1000 * content[x].timeout

\* The object of cell x is in its cell, as it was, after the step.
StaysNext(x) ==
    /\ occupied'[x]
    /\ content'[x] # None
    /\ content'[x].creation = content[x].creation
    /\ G'[x] = G[x] /\ M'[x] = M[x] /\ C_arr'[x] = C_arr[x]

\* C11 as stated (refuted): an object with timeout > 0 is still in its
\* cell after every tick at which elapsed < timeout, and a tick at which
\* elapsed >= timeout removes it and leaves the four arrays 0 at its cell.
TimeoutAloneDecides ==
    [][IncomeStep =>
          \A x \in Cells :
              (content[x] # None /\ content[x].timeout > 0) =>
                  IF TimedOut(x) THEN ClearedNext(x) ELSE StaysNext(x)]_vars

\* C11, amended: an object with timeout > 0 is not removed by expiration
\* in a tick at which elapsed < timeout, and is still in its cell after
\* that tick unless the overheat rule removes it; a tick at which
\* elapsed >= timeout removes it by expiration and leaves the four arrays
\* 0 at its cell.  The first such tick is therefore the one that removes it.
ExpiresAtTimeout ==
    [][IncomeStep =>
          \A x \in Cells :
              (content[x] # None /\ content[x].timeout > 0) =>
                  IF TimedOut(x)
                  THEN x \in ev'.expired /\ ClearedNext(x)
                  ELSE /\ x \notin ev'.expired
                       /\ x \notin ev'.overheated => StaysNext(x)]_vars

\* A tick has just removed an object whose timeout had run out and has
\* left in its cell, heated, another one whose timeout had not.
ExpiresAtTimeoutWitness ==
    /\ ev.type = "INCOME" /\ ev.expired # {}
    /\ \E y \in Cells :
          /\ occupied[y] /\ content[y].timeout > 0
          /\ now - content[y].creation < 1000 * content[y].timeout
          /\ RPos(H[y])

\* C12: in every tick, an object with heat_generation > 0 whose cell the
\* diffusion step of that same tick leaves with heat >= max_heat is removed
\* by that tick, whatever time remains on its timeout, and a tick removes
\* an object for overheat only if that tick's step left its cell with
\* heat >= max_heat; hence the first tick that meets the threshold removes
\* the object and no earlier tick removes it for overheat.
OverheatRemovesAtOnce ==
    [][IncomeStep =>
          \E stepped \in {update_heat_array(H, G, C_arr, M, dt)} :
              \A x \in Cells :
                  /\ (/\ content[x] # None
                      /\ RPos(content[x].heat_generation)
                      /\ RLe(content[x].max_heat, stepped[x]))
                         => /\ x \in ev'.expired \cup ev'.overheated
                            /\ ClearedNext(x)
                  /\ x \in ev'.overheated
                         => /\ content[x] # None
                            /\ RPos(content[x].heat_generation)
                            /\ RLe(content[x].max_heat, stepped[x])]_vars

\* The second tick has just removed an object for overheat, with a dt > 0,
\* and none by expiration: the timeout of the removed object had not run
\* out.
OverheatRemovesAtOnceWitness ==
    /\ ev.type = "INCOME" /\ ticks = 2 /\ RPos(dt)
    /\ ev.overheated # {} /\ ev.expired = {}
    /\ \A x \in ev.overheated : ~occupied[x] /\ H[x] = Zero

\* C13: no tick removes for overheat an object whose heat_generation is
\* <= 0: such an object is in its cell after the tick unless the tick
\* removes it by expiration, also when its mirrored heat equals its
\* max_heat (a full pipe, a sink of max_heat 0 with heat 0).
PassiveNeverOverheats ==
    [][IncomeStep =>
          \A x \in Cells :
              (content[x] # None /\ ~RPos(content[x].heat_generation)) =>
                  /\ x \notin ev'.overheated
                  /\ x \notin ev'.expired => StaysNext(x)]_vars

\* A tick has just left in their cells a sink of max_heat 0, with mirrored
\* heat 0, and an object of heat_generation 0 whose mirrored heat is its
\* max_heat > 0.
PassiveNeverOverheatsWitness ==
    /\ ev.type = "INCOME"
    /\ \E x, y \in Cells :
          /\ occupied[x] /\ RNegative(content[x].heat_generation)
          /\ content[x].max_heat = Zero /\ content[x].heat = Zero
          /\ occupied[y] /\ content[y].heat_generation = Zero
          /\ RPos(content[y].max_heat)
          /\ content[y].heat = content[y].max_heat /\ H[y] = M[y]

\* C14 (refuted by the code): an update_heat_array call with dt < 0 is
\* rejected: it does not change the heat array.
NegativeDtRejected ==
    [][RNegative(dt') => H' = H]_vars

\* The income of the object of cell x, 0 for an empty cell.
IncomeAt(x) == IF content[x] # None THEN content[x].income ELSE Zero

\* C15: a tick increases money by exactly the sum of the incomes of the
\* objects that are in a cell when the tick starts, each counted once, the
\* objects the tick removes included; empty cells contribute nothing.
TickPaysEveryObject ==
    [][IncomeStep =>
          money' = RAdd(money, RSum([x \in Cells |-> IncomeAt(x)], Cells))]_vars

\* A tick has just paid for an object it removed by expiration and for an
\* object with income > 0 that it left in its cell.
TickPaysEveryObjectWitness ==
    /\ ev.type = "INCOME" /\ ev.expired # {}
    /\ \E y \in Cells : occupied[y] /\ RPos(content[y].income)
    /\ money.d > 1

\* C16: an object with timeout 0 is never removed by the expiration rule,
\* however much time has elapsed since its creation: a step leaves it in
\* its cell unless the step is a tick that removes it for overheat or a
\* right click that removes an object.
PermanentNeverExpires ==
    [][\A x \in Cells :
          (content[x] # None /\ content[x].timeout = 0) =>
              /\ IncomeStep => x \notin ev'.expired
              /\ \/ StaysNext(x)
                 \/ IncomeStep /\ x \in ev'.overheated
                 \/ ev'.type = "remove" /\ ev'.ret /\ x \in ClickCells]_vars

\* A tick has just removed an expired object and left in its cell an
\* object with timeout 0 that was created a second or more before.
PermanentNeverExpiresWitness ==
    /\ ev.type = "INCOME" /\ ev.expired # {}
    /\ \E x \in Cells :
          /\ occupied[x] /\ content[x].timeout = 0 /\ content[x].permanent
          /\ now - content[x].creation >= 1000

\* C17: an update_heat_array call changes the heat array only: the
\* generation, capacity and conductivity arrays and the boxes are after the
\* call what they were before it, for every field and dt.
StepChangesHeatOnly ==
    [][ev'.type = "step" =>
          /\ G' = G /\ M' = M /\ C_arr' = C_arr
          /\ occupied' = occupied /\ content' = content]_vars

\* A call with dt # 0 has just changed the heat of a field that holds a
\* conductor, a heat sink and heat moved by conduction.
StepChangesHeatOnlyWitness ==
    /\ ev.type = "step" /\ dt # Zero
    /\ \E x, y, s \in Cells :
          /\ dH[x] # Zero /\ RPos(C_arr[x]) /\ RPos(M[x])
          /\ RNegative(G[s]) /\ Adjacent4(s, y) /\ RPos(H[y])

\* The orders in which the elements of the set S can be taken.
RECURSIVE Orders(_)
Orders(S) ==
    IF S = {} THEN {<<>>}
    ELSE UNION {{<<x>> \o p : p \in Orders(S \ {x})} : x \in S}

\* The orders in which the double loop can take the cells that conduct;
\* a cell that does not is skipped wherever it comes ("continue").
CellOrders == Orders({x \in Cells : Conducts(x, M, C_arr)})

\* C18: the delta buffer at the end of the conduction phase of a call on a
\* drawn field, and with it the heat array, is the same for every order in
\* which the double loop takes the cells and the four directions: every
\* flow is computed from the temperatures taken after generation and
\* before any transfer.
ConductionOrderIndependent ==
    [][(ev'.type = "step" /\ ticks = 0) =>
          \E T \in {Temperature(Generation(H, G, dt'), M)} :
          \E labeled \in {label(C_arr)} :
              \A cells \in CellOrders, dirs \in Orders(1 .. 4) :
                  DoubleLoop(zeros, cells, dirs, T, M, C_arr, labeled, dt') = dH']_vars

\* A call with dt # 0 has just moved heat among three cells or more of
\* one component, where a cell gives to or takes from two neighbours.
ConductionOrderIndependentWitness ==
    /\ ev.type = "step" /\ ticks = 1 /\ dt # Zero
    /\ \E x, y, z \in Cells :
          /\ x # y /\ y # z /\ x # z
          /\ Adjacent4(x, y) /\ Adjacent4(y, z)
          /\ Conducts(x, M, C_arr) /\ Conducts(y, M, C_arr) /\ Conducts(z, M, C_arr)
          /\ dH[x] # Zero /\ dH[y] # Zero /\ dH[z] # Zero

\* a and b touch diagonally, both have capacity > 0, conductivity > 0 and
\* generation 0, and no other cell is occupied.
DiagonalPair(a, b) ==
    /\ Abs(a[1] - b[1]) = 1 /\ Abs(a[2] - b[2]) = 1
    /\ RPos(M[a]) /\ RPos(M[b])
    /\ RPos(C_arr[a]) /\ RPos(C_arr[b])
    /\ G[a] = Zero /\ G[b] = Zero
    /\ \A z \in Cells \ {a, b} : ~occupied[z]

\* C19: two cells that touch only diagonally, both with capacity > 0,
\* conductivity > 0 and generation 0 and alone in the grid, have the same
\* non-zero component id, and an update_heat_array call moves no heat
\* between them: its delta buffer is 0 at both and both keep their heat.
DiagonalPairExchangesNothing ==
    [][\A a, b \in Cells :
          (DiagonalPair(a, b) /\ ev'.type = "step") =>
              /\ label(C_arr)[a] # 0 /\ label(C_arr)[a] = label(C_arr)[b]
              /\ dH'[a] = Zero /\ dH'[b] = Zero
              /\ H'[a] = H[a] /\ H'[b] = H[b]]_vars

\* A call with dt # 0 has just run on two cells of different temperatures
\* that touch diagonally and are alone in the grid.
DiagonalPairExchangesNothingWitness ==
    /\ ev.type = "step" /\ dt # Zero
    /\ \E a, b \in Cells :
          /\ DiagonalPair(a, b)
          /\ TemperatureAt(H, a) # TemperatureAt(H, b)
          /\ RPos(H[a]) /\ RPos(H[b])

\* The cells of the component of b: the cells with its component id, or
\* b alone when its id is 0.
ComponentOf(b, labeled) ==
    IF labeled[b] = 0 THEN {b} ELSE {y \in Cells : labeled[y] = labeled[b]}

\* x is 4-adjacent to a heat sink.
NextToSink(x) == \E s \in cooling_mask(G, M) : Adjacent4(s, x)

\* Other heats the cell b could hold: none, half its capacity, all of it.
OtherHeats(b) == {Zero, RDiv(M[b], R(2)), M[b]} \ {H[b]}

\* C20 as stated (refuted): the heat a call leaves in a cell a is the same
\* on every field that differs from the drawn field only in the heat of a
\* cell b of another component.
OtherComponentNeverMatters ==
    [][(ev'.type = "step" /\ ticks = 0) =>
          \E labeled \in {label(C_arr)} :
              \A b \in {y \in Cells : labeled[y] # 0 /\ RPos(M[y])} :
              \A v \in OtherHeats(b) :
              \E other \in {update_heat_array([H EXCEPT ![b] = v], G, C_arr, M, dt')} :
                  \A a \in Cells :
                      (labeled[a] # 0 /\ labeled[a] # labeled[b]) =>
                          other[a] = H'[a]]_vars

\* C20, amended: the heat a call leaves in a cell a is the same on every
\* field that differs from the drawn field only in the heat of a cell b
\* outside the component of a, if a is 4-adjacent to no heat sink or no
\* cell of the component of b is 4-adjacent to a heat sink.
OtherComponentApartFromSinks ==
    [][(ev'.type = "step" /\ ticks = 0) =>
          \E labeled \in {label(C_arr)} :
              \A b \in {y \in Cells : RPos(M[y])} :
              \A v \in OtherHeats(b) :
              \E other \in {update_heat_array([H EXCEPT ![b] = v], G, C_arr, M, dt')} :
                  \A a \in Cells \ ComponentOf(b, labeled) :
                      (\/ ~NextToSink(a)
                       \/ \A y \in ComponentOf(b, labeled) : ~NextToSink(y)) =>
                          other[a] = H'[a]]_vars

\* A first call with dt > 0 has just cooled a cell next to a heat sink and
\* left it with heat, while a cell of another component, which touches no
\* heat sink, holds heat.
OtherComponentApartFromSinksWitness ==
    /\ ev.type = "step" /\ ticks = 1 /\ RPos(dt)
    /\ \E a, b \in Cells :
          /\ NextToSink(a) /\ RPos(H[a]) /\ RLt(H[a], M[a])
          /\ label(C_arr)[a] # 0
          /\ label(C_arr)[b] # 0 /\ label(C_arr)[b] # label(C_arr)[a]
          /\ RPos(H[b])
          /\ \A y \in ComponentOf(b, label(C_arr)) : ~NextToSink(y)

\* The heat sinks of the board and the cells a heat sink can cool.
Sinks == cooling_mask(G, M)

Coolable(s) == Range(neighbors_to_cool(s, M))

\* Two heat sinks of the board 4-adjacent to one cell with capacity > 0.
SinksShareNeighbour ==
    \E s1, s2 \in Sinks : s1 # s2 /\ Coolable(s1) \cap Coolable(s2) # {}

\* C21 (refuted): when two heat sinks share a coolable neighbour, the heat
\* array at the end of the cooling phase of a call with dt >= 0 is the one
\* the row-major order gives, whatever the order in which the heat sinks
\* are taken.
SinkOrderIndependent ==
    [][(ev'.type = "step" /\ ticks = 0 /\ ~RNegative(dt') /\ SinksShareNeighbour) =>
          \E h2 \in {Apply(Generation(H, G, dt'), dH')} :
          \E h3 \in {Cooling(h2, G, M, dt')} :
              /\ H' = Clip(h3, M)
              /\ \A ss \in Orders(Sinks) : CoolAll(h2, ss, G, M, dt') = h3]_vars

\* Heat sink s, acting on the array h, raises the heat of none of its
\* coolable neighbours and takes from them at most its cooling power.
SinkOnlyCools(h, s, g, m, d) ==
    \E after \in {CoolOne(h, s, g, m, d)} :
        /\ \A y \in Range(neighbors_to_cool(s, m)) : RLe(after[y], h[y])
        /\ RLe(RSum([y \in Cells |-> RSub(h[y], after[y])],
                    Range(neighbors_to_cool(s, m))),
               RMul(RNeg(g[s]), d))

\* The same for each heat sink of the sequence ss in turn, each acting on
\* the array the one before it left.
RECURSIVE EverySinkOnlyCools(_, _, _, _, _)
EverySinkOnlyCools(h, ss, g, m, d) ==
    \/ ss = <<>>
    \/ /\ SinkOnlyCools(h, Head(ss), g, m, d)
       /\ EverySinkOnlyCools(CoolOne(h, Head(ss), g, m, d), Tail(ss), g, m, d)

\* C22 (refuted): in the cooling phase of a call with dt >= 0, whatever
\* heats the conduction phase hands over, no heat sink raises the heat of
\* a coolable neighbour, and the heat one sink takes from its neighbours
\* is at most its cooling power -generation * dt.
CoolingNeverRaisesHeat ==
    [][(ev'.type = "step" /\ ~RNegative(dt')) =>
          \E h2 \in {Apply(Generation(H, G, dt'), dH')} :
              /\ H' = Clip(Cooling(h2, G, M, dt'), M)
              /\ EverySinkOnlyCools(h2, RowMajor(cooling_mask(G, M)), G, M, dt')]_vars

\* In the labelling of the conductivity array c, every two 4-adjacent
\* cells with conductivity > 0 have the same non-zero component id.
AdjacentConductorsSameId(c) ==
    \E labeled \in {label(c)} :
        \A a, b \in Cells :
            (Adjacent4(a, b) /\ RPos(c[a]) /\ RPos(c[b])) =>
                (labeled[a] # 0 /\ labeled[a] = labeled[b])

\* The conductivity arrays of the grid up to the size of their positive
\* entries: conductivity 1 on the cells of S and 0 elsewhere.
Patterns == {[x \in Cells |-> IF x \in S THEN R(1) ELSE Zero] : S \in SUBSET Cells}

\* An array of component ids that passes the component test for every
\* pair: the double loop run with it is the loop with the test removed.
OneComponent == [x \in Cells |-> 1]

\* C23: in the labelling of the board's conductivity array, and on the
\* empty board in the labelling of every pattern of positive conductivity,
\* two 4-adjacent cells with conductivity > 0 have the same non-zero
\* component id; and the delta buffer of a call is the one the double loop
\* gives with the component test removed, so the call's result is the same
\* without the test.
ComponentTestNeverBlocks ==
    [][ev'.type = "step" =>
          /\ AdjacentConductorsSameId(C_arr)
          /\ (ticks = 0 /\ \A x \in Cells : ~occupied[x]) =>
                 \A c \in Patterns : AdjacentConductorsSameId(c)
          /\ \E T \in {Temperature(Generation(H, G, dt'), M)} :
                 DoubleLoop(zeros, RowMajor(Cells), <<1, 2, 3, 4>>, T, M, C_arr,
                            OneComponent, dt') = dH']_vars

\* A call with dt # 0 has just moved heat between two 4-adjacent
\* conducting cells of one component on a board that has a second
\* component.
ComponentTestNeverBlocksWitness ==
    /\ ev.type = "step" /\ dt # Zero
    /\ \E a, b, z \in Cells :
          /\ Adjacent4(a, b)
          /\ Conducts(a, M, C_arr) /\ Conducts(b, M, C_arr)
          /\ dH[a] # Zero /\ dH[b] # Zero
          /\ label(C_arr)[a] # 0 /\ label(C_arr)[a] = label(C_arr)[b]
          /\ label(C_arr)[z] # 0 /\ label(C_arr)[z] # label(C_arr)[a]

\* The box of cell x is empty and its four field values are 0.
EmptyAndCleared(x) ==
    /\ ~occupied[x] /\ content[x] = None
    /\ H[x] = Zero /\ G[x] = Zero /\ M[x] = Zero /\ C_arr[x] = Zero

\* C24: while the clock keeps advancing and ticks keep being handled,
\* every cell the player places on that holds an object with timeout > 0
\* is eventually empty with its four field values 0;
\* a tick that finds such an object at or past its timeout empties the
\* cell; and an empty cell whose four field values are 0 stays so in
\* every step other than a successful place.
ExpiringObjectIsRemoved ==
    /\ \A x \in ClickCells :
          (occupied[x] /\ content[x].timeout > 0) ~> EmptyAndCleared(x)
    /\ [][\A x \in Cells :
             /\ (IncomeStep /\ occupied[x] /\ TimedOut(x)) => EmptyAndCleared(x)'
             /\ (EmptyAndCleared(x) /\ ~(ev'.type = "place" /\ ev'.ret)) =>
                    EmptyAndCleared(x)']_vars

\* A tick has just removed an object at the end of its timeout, and its
\* cell is empty with its four field values 0.
ExpiringObjectIsRemovedWitness ==
    /\ ev.type = "INCOME"
    /\ \E x \in ev.expired : EmptyAndCleared(x)

============================================================================
